---- MODULE Spec2Model ----
(***************************************************************************)
(* Records of oas-common (src/oas-common/src/record.rs) and the record    *)
(* posting handler of oas-core (src/oas-core/src/server/handlers/         *)
(* record.rs): untyped and typed records, their conversions, the JSON     *)
(* merge and the delegation of reference resolution.                      *)
(***************************************************************************)
EXTENDS Integers, Sequences, FiniteSets, TLC

VARIABLES pc, rec, trace, fut, db, reqs

vars == <<pc, rec, trace, fut, db, reqs>>

-----------------------------------------------------------------------------
(* Bounds of the model.                                                    *)

\* numbers used as JSON number values are 1..MaxNum
MaxNum == 2
\* seq, version and timestamp of a received record are 0..MaxCounter
MaxCounter == 1
\* operations applied to one record, its construction included
MaxSteps == 5
\* reference slots of a resolvable payload
MaxRefs == 2
\* merges applied to one record
MaxMerges == 2
\* requests the posting handler serves at a time
MaxPosts == 2

-----------------------------------------------------------------------------
(* serde_json::Value.  Every value is a record of one shape; k is the kind *)
(* and exactly one of n, s, o carries the content of that kind.            *)

EmptyMap == << >>

JNull == [k |-> "null", n |-> 0, s |-> "", o |-> EmptyMap]
JBool(b) == [k |-> "bool", n |-> IF b THEN 1 ELSE 0, s |-> "", o |-> EmptyMap]
JNum(i) == [k |-> "num", n |-> i, s |-> "", o |-> EmptyMap]
JStr(str) == [k |-> "str", n |-> 0, s |-> str, o |-> EmptyMap]
\* the empty array
JArr == [k |-> "arr", n |-> 0, s |-> "", o |-> EmptyMap]
JObj(map) == [k |-> "obj", n |-> 0, s |-> "", o |-> map]

IsObject(v) == v.k = "obj"
IsNull(v) == v.k = "null"

\* serde_json::Map: all maps from a set of keys among K to values of V
Maps(K, V) == UNION {[D -> V] : D \in SUBSET K}

\* Map::remove of every key of R
Without(map, R) == [key \in DOMAIN map \ R |-> map[key]]

-----------------------------------------------------------------------------
(* Results.                                                                *)

Ok(v) == [ok |-> TRUE, err |-> "", expected |-> "", actual |-> "", val |-> v]
Err(kind) == [ok |-> FALSE, err |-> kind, expected |-> "", actual |-> ""]
TypeMismatch(expected, actual) ==
    [ok |-> FALSE, err |-> "TypeMismatch", expected |-> expected, actual |-> actual]

-----------------------------------------------------------------------------
(* RecordMeta and the payload types.                                       *)

DefaultMeta ==
    [guid |-> "", typ |-> "", id |-> "", source |-> "",
     seq |-> 0, version |-> 0, timestamp |-> 0]

\* Serialize for RecordMeta: typ is written under the key "type"
MetaToValue(meta) ==
    JObj([guid |-> JStr(meta.guid), type |-> JStr(meta.typ), id |-> JStr(meta.id),
          source |-> JStr(meta.source), seq |-> JNum(meta.seq),
          version |-> JNum(meta.version), timestamp |-> JNum(meta.timestamp)])

PayloadTypes == {"Media", "Feed"}

\* TypedValue::NAME of the payload types; Post is the one with references
NAME(T) ==
    CASE T = "Media" -> "media"
      [] T = "Feed" -> "feed"
      [] T = "Post" -> "post"

\* format!("{}_{}", Self::NAME, id)
guid(T, id) == NAME(T) \o "_" \o id

\* Deserialize for a payload type: the string field title is required, every
\* other key is kept
from_value(T, map) ==
    IF "title" \in DOMAIN map /\ map["title"].k = "str"
    THEN Ok([title |-> map["title"].s, other |-> Without(map, {"title"})])
    ELSE Err("SerdeJson")

\* Serialize for a payload type: title is written first, the kept keys after
\* it, a later entry replacing an earlier one of the same key
to_value(T, value) ==
    JObj([key \in {"title"} \cup DOMAIN value.other |->
            IF key \in DOMAIN value.other THEN value.other[key]
            ELSE JStr(value.title)])

\* a typed record is well formed when its type tag is the NAME of its payload
\* type and the kept keys of its value do not shadow a field
WellFormed(self) ==
    /\ self.meta.typ = NAME(self.T)
    /\ "title" \notin DOMAIN self.value.other

-----------------------------------------------------------------------------
(* UntypedRecord.                                                          *)

\* with_typ_id_value taking a value that is no object for an empty payload
with_typ_id_value_lenient(typ, id, value) ==
    LET meta == [DefaultMeta EXCEPT !.typ = typ, !.id = id]
    IN  Ok([meta |-> meta, value |-> value.o])

\* UntypedRecord::with_typ_id_value
with_typ_id_value(typ, id, value) ==
    LET meta == [DefaultMeta EXCEPT !.typ = typ, !.id = id]
    IN  IF IsObject(value)
        THEN Ok([meta |-> meta, value |-> value.o])
        ELSE Err("NotAnObject")

\* into_typed_record deserializing the payload before it compares the types
into_typed_record_decode_first(self, T) ==
    LET value == from_value(T, self.value)
    IN  IF ~value.ok
        THEN Err("SerdeJson")
        ELSE IF self.meta.typ # NAME(T)
        THEN TypeMismatch(NAME(T), self.meta.typ)
        ELSE Ok([T |-> T, meta |-> self.meta, value |-> value.val])

\* UntypedRecord::into_typed_record::<T>
into_typed_record(self, T) ==
    IF self.meta.typ # NAME(T)
    THEN TypeMismatch(NAME(T), self.meta.typ)
    ELSE LET value == from_value(T, self.value)
         IN  IF ~value.ok
             THEN Err("SerdeJson")
             ELSE Ok([T |-> T, meta |-> self.meta, value |-> value.val])

\* the serialization writing "$meta" after the payload entries
UntypedToValue_meta_last(self) ==
    JObj([key \in {"$meta"} \cup DOMAIN self.value |->
            IF key = "$meta" THEN MetaToValue(self.meta) ELSE self.value[key]])

\* Serialize for UntypedRecord: the entry "$meta" is written first, the
\* flattened payload entries after it into the same map
UntypedToValue(self) ==
    JObj([key \in {"$meta"} \cup DOMAIN self.value |->
            IF key \in DOMAIN self.value THEN self.value[key]
            ELSE MetaToValue(self.meta)])

\* UntypedRecord::into_json_object
into_json_object(self) ==
    LET value == UntypedToValue(self)
    IN  IF IsObject(value) THEN Ok(value.o) ELSE Err("NotAnObject")

\* merge putting an object of the patch in place of the value it patches
merge_wholesale(doc, patch) ==
    IF ~IsObject(patch)
    THEN patch
    ELSE LET map == IF IsObject(doc) THEN doc.o ELSE EmptyMap
             removed == {key \in DOMAIN patch.o : IsNull(patch.o[key])}
             merged == DOMAIN patch.o \ removed
         IN  JObj([key \in (DOMAIN map \ removed) \cup merged |->
                     IF key \in merged THEN patch.o[key] ELSE map[key]])

\* json_patch::merge(doc, patch), giving the new doc
RECURSIVE merge(_, _)
merge(doc, patch) ==
    IF ~IsObject(patch)
    THEN patch
    ELSE LET map == IF IsObject(doc) THEN doc.o ELSE EmptyMap
             removed == {key \in DOMAIN patch.o : IsNull(patch.o[key])}
             merged == DOMAIN patch.o \ removed
         IN  JObj([key \in (DOMAIN map \ removed) \cup merged |->
                     IF key \in merged
                     THEN merge(IF key \in DOMAIN map THEN map[key] ELSE JNull,
                                patch.o[key])
                     ELSE map[key]])

\* merge_json_value taking the payload out of the record instead of cloning it
merge_json_value_take(self, value_to_merge) ==
    LET value == merge(JObj(self.value), value_to_merge)
    IN  IF IsObject(value)
        THEN [res |-> Ok(TRUE), self |-> [self EXCEPT !.value = value.o]]
        ELSE [res |-> Err("NotAnObject"), self |-> [self EXCEPT !.value = EmptyMap]]

\* UntypedRecord::merge_json_value: the result and the record afterwards
merge_json_value(self, value_to_merge) ==
    LET value == merge(JObj(self.value), value_to_merge)
    IN  IF IsObject(value)
        THEN [res |-> Ok(TRUE), self |-> [self EXCEPT !.value = value.o]]
        ELSE [res |-> Err("NotAnObject"), self |-> self]

-----------------------------------------------------------------------------
(* TypedRecord<T>.                                                         *)

\* from_id_and_value leaving the guid at its default
from_id_and_value_no_guid(T, id, value) ==
    LET meta == [DefaultMeta EXCEPT !.id = id, !.typ = NAME(T)]
    IN  [T |-> T, meta |-> meta, value |-> value]

\* TypedRecord::from_id_and_value
from_id_and_value(T, id, value) ==
    LET typ == NAME(T)
        g == typ \o "_" \o id
        meta == [DefaultMeta EXCEPT !.guid = g, !.id = id, !.typ = typ]
    IN  [T |-> T, meta |-> meta, value |-> value]

\* into_untyped_record building the metadata anew from type and id
into_untyped_record_new_meta(self) ==
    LET value == to_value(self.T, self.value)
    IN  IF IsObject(value)
        THEN Ok([meta |-> [DefaultMeta EXCEPT !.typ = self.meta.typ,
                                              !.id = self.meta.id],
                 value |-> value.o])
        ELSE Err("NotAnObject")

\* TypedRecord::into_untyped_record
into_untyped_record(self) ==
    LET value == to_value(self.T, self.value)
    IN  IF IsObject(value)
        THEN Ok([meta |-> self.meta, value |-> value.o])
        ELSE Err("NotAnObject")

\* Serialize for TypedRecord<T>: the entry "$meta" is written first, the
\* flattened entries of the value after it into the same map
TypedToValue(self) ==
    LET flat == to_value(self.T, self.value).o
    IN  JObj([key \in {"$meta"} \cup DOMAIN flat |->
                IF key \in DOMAIN flat THEN flat[key] ELSE MetaToValue(self.meta)])

\* TypedRecord::into_json_object
typed_into_json_object(self) ==
    LET value == TypedToValue(self)
    IN  IF IsObject(value) THEN Ok(value.o) ELSE Err("NotAnObject")

\* Deserialize for RecordMeta: every field is required, with its kind
MetaFromValue(value) ==
    IF /\ IsObject(value)
       /\ {"guid", "type", "id", "source", "seq", "version", "timestamp"}
              \subseteq DOMAIN value.o
       /\ \A key \in {"guid", "type", "id", "source"} : value.o[key].k = "str"
       /\ \A key \in {"seq", "version", "timestamp"} : value.o[key].k = "num"
    THEN Ok([guid |-> value.o["guid"].s, typ |-> value.o["type"].s,
             id |-> value.o["id"].s, source |-> value.o["source"].s,
             seq |-> value.o["seq"].n, version |-> value.o["version"].n,
             timestamp |-> value.o["timestamp"].n])
    ELSE Err("SerdeJson")

\* Deserialize for UntypedRecord: "$meta" becomes the metadata, every other
\* entry of the object goes to the flattened payload
UntypedFromValue(value) ==
    IF ~IsObject(value) \/ "$meta" \notin DOMAIN value.o
    THEN Err("SerdeJson")
    ELSE LET meta == MetaFromValue(value.o["$meta"])
         IN  IF ~meta.ok
             THEN Err("SerdeJson")
             ELSE Ok([meta |-> meta.val, value |-> Without(value.o, {"$meta"})])

\* Deserialize for TypedRecord<T>: "$meta" becomes the metadata, every other
\* entry of the object goes to the flattened value, which T deserializes; the
\* type tag of the metadata is not compared with T::NAME
TypedFromValue(T, value) ==
    IF ~IsObject(value) \/ "$meta" \notin DOMAIN value.o
    THEN Err("SerdeJson")
    ELSE LET meta == MetaFromValue(value.o["$meta"])
             flat == from_value(T, Without(value.o, {"$meta"}))
         IN  IF ~meta.ok \/ ~flat.ok
             THEN Err("SerdeJson")
             ELSE Ok([T |-> T, meta |-> meta.val, value |-> flat.val])

-----------------------------------------------------------------------------
(* The posting handler.                                                    *)

\* CouchDB::put_record: the record is added to the store, or the write
\* fails; the answer and the store afterwards
put_record(store, record, written) ==
    IF written
    THEN [res |-> Ok(JNull), db |-> store \cup {record}]
    ELSE [res |-> Err("Couch"), db |-> store]

\* post_record upgrading a record tagged as Media to Feed
post_record_swapped(record) ==
    IF record.meta.typ = NAME("Media") \/ record.meta.typ = NAME("Feed")
    THEN into_typed_record(record, "Feed")
    ELSE Err("Unknown type")

\* post_record up to db.put_record(record).await: the match on the type tag
\* and the upgrade; an error is the response, a typed record is put next
post_record(record) ==
    IF record.meta.typ = NAME("Media")
    THEN into_typed_record(record, "Media")
    ELSE IF record.meta.typ = NAME("Feed")
    THEN into_typed_record(record, "Feed")
    ELSE Err("Unknown type")

\* post_record after db.put_record(record).await: the error of the store, or
\* true
post_record_response(put) ==
    IF ~put.ok THEN put ELSE Ok(JBool(TRUE))

-----------------------------------------------------------------------------
(* The inputs of the model.                                                *)

TypeTags == {"media", "feed", "other"}
Ids == {"1", "42"}

Leaves == {JStr("X")} \cup {JNum(i) : i \in 1..MaxNum}
NonObjects == {JNull, JBool(TRUE), JNum(1), JStr("X"), JArr}

\* payload objects given to the constructor
Objects == {JObj(map) : map \in Maps({"title", "a", "$meta"}, Leaves)}

\* values of a payload type: a title and kept keys
TypedValues == [title : {"X"}, other : Maps({"title", "a"}, Leaves)]

\* metadata of records received in the wire form
WireMetas ==
    {[guid |-> typ \o "_42", typ |-> typ, id |-> "42", source |-> "rss",
      seq |-> seq, version |-> version, timestamp |-> version] :
        typ \in TypeTags, seq \in 0..MaxCounter, version \in 0..MaxCounter}

\* records in the wire form, and objects that are no record
WireValues ==
    {UntypedToValue([meta |-> meta, value |-> map]) :
        meta \in WireMetas, map \in Maps({"title", "a"}, {JStr("X"), JNum(1)})}
    \cup {JObj(map) : map \in Maps({"title", "$meta"}, {JStr("X")})}

\* values merged into a record in its life
Patches == {JArr, JObj([a |-> JNull]), JObj([title |-> JNum(1)])}

NoRecord == [meta |-> DefaultMeta, value |-> EmptyMap]

\* no call of the record is suspended
NoFuture == [n |-> 0]

\* no typed record
NoTyped == [T |-> "", meta |-> DefaultMeta,
            value |-> [title |-> "", other |-> EmptyMap]]

\* a request the handler has not got yet
NoRequest == [st |-> "new", record |-> NoRecord, typed |-> NoTyped,
              put |-> Ok(JNull), res |-> Ok(JNull)]

Last == trace[Len(trace)]

\* the merges made so far
Merges == Cardinality({i \in DOMAIN trace : trace[i].op = "merge_json_value"})

-----------------------------------------------------------------------------
(* The life of one record: it is constructed, then converted and merged.   *)

Init ==
    /\ pc = "start"
    /\ rec = NoRecord
    /\ trace = << >>
    /\ fut = NoFuture
    /\ db = {}
    /\ reqs = [q \in 1..MaxPosts |-> NoRequest]

WithTypIdValue(typ, id, value) ==
    /\ pc = "start"
    /\ LET res == with_typ_id_value(typ, id, value)
       IN  /\ trace' = <<[op |-> "with_typ_id_value", typ |-> typ, id |-> id,
                          value |-> value, res |-> res]>>
           /\ pc' = IF res.ok THEN "untyped" ELSE "done"
           /\ rec' = IF res.ok THEN res.val ELSE NoRecord
    /\ UNCHANGED <<fut, db, reqs>>

Deserialize(value) ==
    /\ pc = "start"
    /\ LET res == UntypedFromValue(value)
       IN  /\ trace' = <<[op |-> "deserialize", value |-> value, res |-> res]>>
           /\ pc' = IF res.ok THEN "untyped" ELSE "done"
           /\ rec' = IF res.ok THEN res.val ELSE NoRecord
    /\ UNCHANGED <<fut, db, reqs>>

DeserializeTyped(T, value) ==
    /\ pc = "start"
    /\ LET res == TypedFromValue(T, value)
       IN  /\ trace' = <<[op |-> "deserialize_typed", T |-> T, value |-> value,
                          res |-> res]>>
           /\ pc' = IF res.ok THEN "typed" ELSE "done"
           /\ rec' = IF res.ok THEN res.val ELSE NoRecord
    /\ UNCHANGED <<fut, db, reqs>>

FromIdAndValue(T, id, value) ==
    /\ pc = "start"
    /\ LET res == from_id_and_value(T, id, value)
       IN  /\ trace' = <<[op |-> "from_id_and_value", T |-> T, id |-> id,
                          value |-> value, res |-> Ok(res)]>>
           /\ pc' = "typed"
           /\ rec' = res
    /\ UNCHANGED <<fut, db, reqs>>

IntoTypedRecord(T) ==
    /\ pc = "untyped"
    /\ Len(trace) < MaxSteps
    /\ LET res == into_typed_record(rec, T)
       IN  /\ trace' = Append(trace, [op |-> "into_typed_record", T |-> T,
                                      self |-> rec, res |-> res])
           /\ pc' = IF res.ok THEN "typed" ELSE "done"
           /\ rec' = IF res.ok THEN res.val ELSE NoRecord
    /\ UNCHANGED <<fut, db, reqs>>

IntoUntypedRecord ==
    /\ pc = "typed"
    /\ Len(trace) < MaxSteps
    /\ LET res == into_untyped_record(rec)
       IN  /\ trace' = Append(trace, [op |-> "into_untyped_record",
                                      self |-> rec, res |-> res])
           /\ pc' = IF res.ok THEN "untyped" ELSE "done"
           /\ rec' = IF res.ok THEN res.val ELSE NoRecord
    /\ UNCHANGED <<fut, db, reqs>>

IntoJsonObject ==
    /\ pc = "untyped"
    /\ Len(trace) < MaxSteps
    /\ LET res == into_json_object(rec)
       IN  trace' = Append(trace, [op |-> "into_json_object",
                                   self |-> rec, res |-> res])
    /\ pc' = "done"
    /\ rec' = NoRecord
    /\ UNCHANGED <<fut, db, reqs>>

TypedIntoJsonObject ==
    /\ pc = "typed"
    /\ Len(trace) < MaxSteps
    /\ LET res == typed_into_json_object(rec)
       IN  trace' = Append(trace, [op |-> "typed_into_json_object",
                                   self |-> rec, res |-> res])
    /\ pc' = "done"
    /\ rec' = NoRecord
    /\ UNCHANGED <<fut, db, reqs>>

MergeJsonValue(value_to_merge) ==
    /\ pc = "untyped"
    /\ Len(trace) < MaxSteps
    /\ Merges < MaxMerges
    /\ LET merged == merge_json_value(rec, value_to_merge)
       IN  /\ trace' = Append(trace, [op |-> "merge_json_value", self |-> rec,
                                      value_to_merge |-> value_to_merge,
                                      res |-> merged.res])
           /\ rec' = merged.self
    /\ UNCHANGED <<pc, fut, db, reqs>>

\* post_record is called with the record and runs to its first await or to
\* its error
PostBegin(q, record) ==
    /\ reqs[q].st = "new"
    /\ LET res == post_record(record)
       IN  reqs' = [reqs EXCEPT ![q] =
                       IF res.ok
                       THEN [@ EXCEPT !.st = "awaiting", !.record = record,
                                      !.typed = res.val]
                       ELSE [@ EXCEPT !.st = "done", !.record = record,
                                      !.res = res]]
    /\ UNCHANGED db

\* the store serves the put of a suspended post_record
PostPut(q, written) ==
    /\ reqs[q].st = "awaiting"
    /\ LET put == put_record(db, reqs[q].typed, written)
       IN  /\ db' = put.db
           /\ reqs' = [reqs EXCEPT ![q] = [@ EXCEPT !.st = "answered",
                                                    !.put = put.res]]
    /\ UNCHANGED <<pc, rec, trace, fut>>

\* post_record is resumed with the answer of the store and responds
PostRespond(q) ==
    /\ reqs[q].st = "answered"
    /\ reqs' = [reqs EXCEPT ![q] =
                    [@ EXCEPT !.st = "done",
                              !.res = post_record_response(reqs[q].put)]]
    /\ UNCHANGED <<pc, rec, trace, fut, db>>

\* the record of this life is posted
PostRecord(q) ==
    /\ pc = "untyped"
    /\ Len(trace) < MaxSteps
    /\ PostBegin(q, rec)
    /\ trace' = Append(trace, [op |-> "post_record", self |-> rec])
    /\ pc' = "done"
    /\ rec' = NoRecord
    /\ UNCHANGED fut

Next ==
    \/ \E typ \in TypeTags, id \in Ids, value \in Objects \cup NonObjects :
           WithTypIdValue(typ, id, value)
    \/ \E value \in WireValues : Deserialize(value)
    \/ \E T \in PayloadTypes, value \in WireValues : DeserializeTyped(T, value)
    \/ \E T \in PayloadTypes, id \in Ids, value \in TypedValues :
           FromIdAndValue(T, id, value)
    \/ \E T \in PayloadTypes : IntoTypedRecord(T)
    \/ IntoUntypedRecord
    \/ IntoJsonObject
    \/ TypedIntoJsonObject
    \/ \E value_to_merge \in Patches : MergeJsonValue(value_to_merge)
    \/ \E q \in 1..MaxPosts : PostRecord(q)
    \/ \E q \in 1..MaxPosts, written \in BOOLEAN : PostPut(q, written)
    \/ \E q \in 1..MaxPosts : PostRespond(q)

Spec == Init /\ [][Next]_vars

-----------------------------------------------------------------------------
(* Properties of the constructors and the conversions.                     *)

Did(op) == Len(trace) > 0 /\ Last.op = op

\* C1: an upgrade to a type whose NAME differs from the record's type tag
\* fails with TypeMismatch(T::NAME, the tag), whatever the payload holds
TypeMismatchDetected ==
    (Did("into_typed_record") /\ Last.self.meta.typ # NAME(Last.T))
        => /\ ~Last.res.ok
           /\ Last.res = TypeMismatch(NAME(Last.T), Last.self.meta.typ)
           /\ pc = "done"

\* a mismatching upgrade of a payload that does not deserialize either
TypeMismatchReached ==
    /\ Did("into_typed_record")
    /\ Last.self.meta.typ = "other"
    /\ Last.T = "Feed"
    /\ "title" \notin DOMAIN Last.self.value
    /\ Last.res.err = "TypeMismatch"

\* C2: downgrading a well-formed typed record, upgrading the result to the
\* same type and downgrading again succeeds at every step and ends in the
\* untyped record of the first downgrade, which has the metadata of the typed
\* record and every field of its value
RoundTripLossless ==
    \A i \in DOMAIN trace :
        (trace[i].op = "into_untyped_record" /\ WellFormed(trace[i].self))
        => LET r == trace[i].self
               d == trace[i].res
           IN  /\ d.ok
               /\ d.val.meta = r.meta
               /\ DOMAIN d.val.value = {"title"} \cup DOMAIN r.value.other
               /\ d.val.value["title"] = JStr(r.value.title)
               /\ \A key \in DOMAIN r.value.other :
                      d.val.value[key] = r.value.other[key]
               /\ (i + 1 \in DOMAIN trace /\ trace[i + 1].op = "into_typed_record"
                       /\ trace[i + 1].T = r.T)
                  => /\ trace[i + 1].res.ok
                     /\ (i + 2 \in DOMAIN trace
                            /\ trace[i + 2].op = "into_untyped_record")
                        => /\ trace[i + 2].res.ok
                           /\ trace[i + 2].res.val = d.val

\* a typed record received with the tag of its type was taken through the
\* round trip with its metadata and an extra payload key
RoundTripReached ==
    /\ Len(trace) = 4
    /\ trace[1].op = "deserialize_typed"
    /\ trace[2].op = "into_untyped_record"
    /\ trace[3].op = "into_typed_record"
    /\ trace[4].op = "into_untyped_record"
    /\ trace[2].self.T = "Media"
    /\ WellFormed(trace[2].self)
    /\ trace[2].self.meta.seq = 1
    /\ trace[2].self.meta.source = "rss"
    /\ "a" \in DOMAIN trace[2].self.value.other
    /\ trace[4].res.ok
    /\ trace[4].res.val = trace[2].res.val

\* C4: with_typ_id_value succeeds exactly for a JSON object; a value of any
\* other kind gives NotAnObject and no record, an object gives a record with
\* that object as payload and the given type and id
ShapeRejection ==
    Did("with_typ_id_value")
        => /\ Last.res.ok <=> Last.value.k = "obj"
           /\ ~Last.res.ok => /\ Last.res = Err("NotAnObject")
                              /\ pc = "done"
                              /\ rec = NoRecord
           /\ Last.res.ok => /\ Last.res.val.value = Last.value.o
                             /\ Last.res.val.meta.typ = Last.typ
                             /\ Last.res.val.meta.id = Last.id
                             /\ rec = Last.res.val

\* the constructor was given an array
ShapeRejectionReached ==
    /\ Did("with_typ_id_value")
    /\ Last.value = JArr
    /\ Last.res.err = "NotAnObject"

\* C5: from_id_and_value gives type T::NAME, the given id and the guid
\* T::NAME, "_", id, which is what T::guid(id) gives; it cannot fail
TypedGuid ==
    Did("from_id_and_value")
        => /\ Last.res.ok
           /\ pc = "typed"
           /\ rec.meta.typ = NAME(Last.T)
           /\ rec.meta.id = Last.id
           /\ rec.meta.guid = NAME(Last.T) \o "_" \o Last.id
           /\ rec.meta.guid = guid(Last.T, Last.id)
           /\ rec.value = Last.value

\* a Media record was built from the id 42
TypedGuidReached ==
    /\ Did("from_id_and_value")
    /\ Last.T = "Media"
    /\ Last.id = "42"
    /\ rec.meta.guid = "media_42"

\* C6: every record a constructor gives has the guid type, "_", id
ConstructorGuid ==
    /\ Did("from_id_and_value")
           => rec.meta.guid = rec.meta.typ \o "_" \o rec.meta.id
    /\ (Did("with_typ_id_value") /\ Last.res.ok)
           => rec.meta.guid = Last.typ \o "_" \o Last.id

\* C7 as stated: "$meta" holds the metadata and every payload key its
\* payload value, whatever the payload keys are
JsonObjectKeepsMetaAndPayload ==
    Did("into_json_object")
        => /\ Last.res.ok
           /\ Last.res.val["$meta"] = MetaToValue(Last.self.meta)
           /\ \A key \in DOMAIN Last.self.value :
                  /\ key \in DOMAIN Last.res.val
                  /\ Last.res.val[key] = Last.self.value[key]

\* C7 amended: the object has the payload keys and "$meta"; every payload key
\* holds its payload value; "$meta" holds the metadata when the payload has
\* no key "$meta"
JsonObjectFlattened ==
    Did("into_json_object")
        => /\ Last.res.ok
           /\ DOMAIN Last.res.val = {"$meta"} \cup DOMAIN Last.self.value
           /\ \A key \in DOMAIN Last.self.value :
                  Last.res.val[key] = Last.self.value[key]
           /\ "$meta" \notin DOMAIN Last.self.value
                  => Last.res.val["$meta"] = MetaToValue(Last.self.meta)

\* a record whose payload has the key "$meta" was converted
JsonObjectCollisionReached ==
    /\ Did("into_json_object")
    /\ "$meta" \in DOMAIN Last.self.value
    /\ "a" \in DOMAIN Last.self.value
    /\ Last.res.val["$meta"] = Last.self.value["$meta"]

-----------------------------------------------------------------------------
(* The posting handler serving requests that share the store.              *)

\* records received by the handler
PostedRecords ==
    {[meta |-> [DefaultMeta EXCEPT !.guid = typ \o "_42", !.typ = typ,
                                   !.id = "42"],
      value |-> map] :
        typ \in TypeTags,
        map \in {EmptyMap, [title |-> JStr("X")], [title |-> JNum(1)],
                 [title |-> JStr("X"), a |-> JNum(1)]}}

\* a request arrives with a record
PostReceived(q, record) ==
    /\ PostBegin(q, record)
    /\ UNCHANGED <<pc, rec, trace, fut>>

NextPost ==
    \/ \E q \in 1..MaxPosts, record \in PostedRecords : PostReceived(q, record)
    \/ \E q \in 1..MaxPosts, written \in BOOLEAN : PostPut(q, written)
    \/ \E q \in 1..MaxPosts : PostRespond(q)

SpecPost == Init /\ [][NextPost]_vars

\* the typed record an untyped record with a string title upgrades to
Upgraded(T, record) ==
    [T |-> T, meta |-> record.meta,
     value |-> [title |-> record.value["title"].s,
                other |-> Without(record.value, {"title"})]]

\* the payload types whose NAME is the type tag of the record
Known(record) == {T \in PayloadTypes : NAME(T) = record.meta.typ}

\* C10: post_record writes only a record whose type tag is the NAME of Media
\* or Feed and whose upgrade to that type succeeds, and what it writes is
\* that upgrade; any other tag gives "Unknown type" and no write; the result
\* is never a TypeMismatch; true is answered only after the write
PostDispatch ==
    /\ \A r \in db :
           \E q \in 1..MaxPosts, T \in PayloadTypes :
               /\ reqs[q].st \in {"answered", "done"}
               /\ T \in Known(reqs[q].record)
               /\ "title" \in DOMAIN reqs[q].record.value
               /\ reqs[q].record.value["title"].k = "str"
               /\ r = Upgraded(T, reqs[q].record)
    /\ \A q \in 1..MaxPosts :
           reqs[q].st # "new"
           => /\ Known(reqs[q].record) = {}
                  => /\ reqs[q].st = "done"
                     /\ reqs[q].res = Err("Unknown type")
              /\ reqs[q].res.err # "TypeMismatch"
              /\ (reqs[q].st = "done" /\ reqs[q].res.ok)
                  => /\ reqs[q].res = Ok(JBool(TRUE))
                     /\ \E T \in Known(reqs[q].record) :
                            Upgraded(T, reqs[q].record) \in db

\* a posted feed record was written and answered while a media record waits
\* for the store
PostDispatchReached ==
    /\ reqs[1].st = "done"
    /\ reqs[1].record.meta.typ = "feed"
    /\ reqs[1].res.ok
    /\ \E r \in db : r.T = "Feed" /\ r.meta = reqs[1].record.meta
    /\ reqs[2].st = "awaiting"
    /\ reqs[2].typed.T = "Media"
    /\ \A r \in db : r.T # "Media"

-----------------------------------------------------------------------------
(* The merge of JSON values into a constructed or received record.         *)

\* payloads: numbers and one level of objects
MergePayloads ==
    {JObj(map) : map \in Maps({"a", "b"},
                              {JNum(1), JNum(2), JObj([a |-> JNum(2)])})}

\* received records with a payload
MergeWireValues ==
    {UntypedToValue([meta |-> [guid |-> "media_42", typ |-> "media",
                               id |-> "42", source |-> "rss", seq |-> seq,
                               version |-> seq, timestamp |-> seq],
                     value |-> map]) :
        seq \in 0..MaxCounter, map \in Maps({"a"}, {JNum(1)})}

\* patches: a number, null and one level of objects, and values that are no
\* object
MergePatches ==
    {JObj(map) : map \in Maps({"b", "c"},
                              {JNull, JNum(3), JObj([a |-> JNull]),
                               JObj([a |-> JNum(3)])})}
    \cup NonObjects

NextMerge ==
    \/ \E value \in MergePayloads : WithTypIdValue("media", "42", value)
    \/ \E value \in MergeWireValues : Deserialize(value)
    \/ \E value_to_merge \in MergePatches : MergeJsonValue(value_to_merge)

SpecMerge == Init /\ [][NextMerge]_vars

\* the map after is the map before patched by the patch map: a key the patch
\* gives null is absent, a key it gives an object holds the value before (an
\* empty object when that was none) patched by that object, a key it gives
\* any other value holds that value, and every other key is as before
RECURSIVE Patched(_, _, _)
Patched(map, patch, after) ==
    /\ DOMAIN after = (DOMAIN map \cup DOMAIN patch)
                          \ {key \in DOMAIN patch : IsNull(patch[key])}
    /\ \A key \in DOMAIN after :
           IF key \notin DOMAIN patch THEN after[key] = map[key]
           ELSE IF ~IsObject(patch[key]) THEN after[key] = patch[key]
           ELSE /\ IsObject(after[key])
                /\ Patched(IF key \in DOMAIN map /\ IsObject(map[key])
                           THEN map[key].o ELSE EmptyMap,
                           patch[key].o, after[key].o)

\* C3: merging an object into a record patches its payload as RFC 7386 says
MergePatchSemantics ==
    (Did("merge_json_value") /\ IsObject(Last.value_to_merge))
        => /\ Last.res.ok
           /\ Patched(Last.self.value, Last.value_to_merge.o, rec.value)

\* {a:1, b:2} merged with {b:null, c:3} became {a:1, c:3}
MergeExampleReached ==
    /\ Did("merge_json_value")
    /\ Last.self.value = [a |-> JNum(1), b |-> JNum(2)]
    /\ Last.value_to_merge = JObj([b |-> JNull, c |-> JNum(3)])
    /\ rec.value = [a |-> JNum(1), c |-> JNum(3)]

\* C9: merge_json_value fails exactly when the value to merge is no object,
\* with NotAnObject and the record as it was; it never changes the metadata
MergeFailureKeepsRecord ==
    Did("merge_json_value")
        => /\ ~Last.res.ok <=> ~IsObject(Last.value_to_merge)
           /\ ~Last.res.ok => /\ Last.res = Err("NotAnObject")
                              /\ rec = Last.self
           /\ rec.meta = Last.self.meta

\* an array was merged into a received record after an object was
MergeFailureReached ==
    /\ Len(trace) = 3
    /\ trace[1].op = "deserialize"
    /\ trace[2].op = "merge_json_value"
    /\ trace[2].res.ok
    /\ trace[2].self.value = [a |-> JNum(1)]
    /\ Did("merge_json_value")
    /\ Last.value_to_merge = JArr
    /\ Last.res.err = "NotAnObject"
    /\ rec.value = [a |-> JNum(1), b |-> JObj([a |-> JNum(3)])]
    /\ rec.meta.seq = 1

-----------------------------------------------------------------------------
(* Reference resolution of a typed record whose payload has references.    *)

\* a reference by id, and a reference holding the loaded record
Id(id) == [id |-> id, resolved |-> FALSE, record |-> NoRecord]
Resolved(record) == [id |-> record.meta.id, resolved |-> TRUE, record |-> record]

\* the first reference by id at or after n, or the length and one when every
\* reference from n on holds a record
NextRef(refs, n) ==
    LET open == {m \in n..Len(refs) : ~refs[m].resolved}
    IN  IF open = {} THEN Len(refs) + 1
        ELSE CHOOSE m \in open : \A o \in open : m <= o

\* Resolvable::resolve_refs of the payload, one awaited answer of the
\* resolver: the reference by id n is replaced by the record loaded for its
\* id, or its id is missing; a reference that holds a record is no reference
\* by id and is left as it is
Resolvable_resolve_ref(future, n, answer) ==
    IF answer.found
    THEN [future EXCEPT !.n = NextRef(future.refs, n + 1),
                        !.refs[n] = Resolved(answer.record),
                        !.loaded = Append(@, answer.record)]
    ELSE [future EXCEPT !.n = NextRef(future.refs, n + 1),
                        !.missing = @ \cup {future.refs[n].id}]

\* Resolvable::resolve_refs of the payload, after the last answer: when some
\* ids are missing the call fails with all of them, having replaced the
\* found references (partial) or none
Resolvable_resolve_refs(value, future, partial) ==
    IF future.missing = {}
    THEN [res |-> Ok(JNull), value |-> [value EXCEPT !.refs = future.refs]]
    ELSE [res |-> [ok |-> FALSE, err |-> "MissingRefs",
                   missing |-> future.missing],
          value |-> IF partial THEN [value EXCEPT !.refs = future.refs]
                    ELSE value]

\* Resolvable::extract_refs of the payload: the held records are handed back
\* in the order of their references, which become references by id
Resolvable_extract_refs(value) ==
    LET held == SelectSeq(value.refs, LAMBDA ref : ref.resolved)
    IN  [res |-> [n \in DOMAIN held |-> held[n].record],
         value |-> [value EXCEPT
                        !.refs = [n \in DOMAIN value.refs |-> Id(value.refs[n].id)]]]

\* TypedRecord::resolve_refs when the future of the value is ready: its
\* result is the result, and the value is as that call left it
resolve_refs(self, resolved) ==
    [res |-> resolved.res, self |-> [self EXCEPT !.value = resolved.value]]

\* extract_refs working on a copy of the value
extract_refs_of_copy(self) ==
    [res |-> Resolvable_extract_refs(self.value).res, self |-> self]

\* TypedRecord::extract_refs: the extracted records and the record afterwards
extract_refs(self) ==
    LET extracted == Resolvable_extract_refs(self.value)
    IN  [res |-> extracted.res, self |-> [self EXCEPT !.value = extracted.value]]

RefIds == {"1", "2"}

\* the record with an id in a version
SubRecord(id, version) ==
    [meta |-> [guid |-> "media_" \o id, typ |-> "media", id |-> id,
               source |-> "rss", seq |-> 0, version |-> version,
               timestamp |-> 0],
     value |-> [title |-> JStr("X")]]

\* the records the resolver has
SubRecords == {SubRecord(id, 2) : id \in RefIds}

\* the records a payload can hold from the start: those of the resolver and
\* an older version of one
HeldRecords == SubRecords \cup {SubRecord("1", 1)}

\* what the resolver answers when asked for an id: nothing, or a record
Answers ==
    {[found |-> FALSE, record |-> NoRecord]}
    \cup {[found |-> TRUE, record |-> r] : r \in SubRecords}

References == {Id(id) : id \in RefIds} \cup {Resolved(r) : r \in HeldRecords}

\* payloads with up to MaxRefs references
ResolvableValues ==
    {[refs |-> refs] : refs \in UNION {[1..n -> References] : n \in 0..MaxRefs}}

\* the last two operations
Window(entry) == IF Len(trace) < 2 THEN Append(trace, entry) ELSE <<trace[2], entry>>

\* resolve_refs is called: it borrows the record and calls resolve_refs of
\* the value, which has asked the resolver for nothing yet
ResolveBegin ==
    /\ pc = "typed"
    /\ pc' = "resolving"
    /\ fut' = [n |-> NextRef(rec.value.refs, 1), refs |-> rec.value.refs,
               loaded |-> << >>, missing |-> {}]
    /\ UNCHANGED <<rec, trace, db, reqs>>

\* the resolver answers the lookup the call is suspended at
ResolveAnswer(answer) ==
    /\ pc = "resolving"
    /\ fut.n <= Len(fut.refs)
    /\ answer.found => answer.record.meta.id = fut.refs[fut.n].id
    /\ fut' = Resolvable_resolve_ref(fut, fut.n, answer)
    /\ UNCHANGED <<pc, rec, trace, db, reqs>>

\* every lookup is answered and resolve_refs returns
ResolveReturn(partial) ==
    /\ pc = "resolving"
    /\ fut.n > Len(fut.refs)
    /\ LET resolved == resolve_refs(rec, Resolvable_resolve_refs(rec.value, fut,
                                                                 partial))
       IN  /\ trace' = Window([op |-> "resolve_refs", self |-> rec,
                               loaded |-> fut.loaded, res |-> resolved.res])
           /\ rec' = resolved.self
    /\ pc' = "typed"
    /\ fut' = NoFuture
    /\ UNCHANGED <<db, reqs>>

ExtractRefs ==
    /\ pc = "typed"
    /\ LET extracted == extract_refs(rec)
       IN  /\ trace' = Window([op |-> "extract_refs", self |-> rec,
                               res |-> extracted.res])
           /\ rec' = extracted.self
    /\ UNCHANGED <<pc, fut, db, reqs>>

NextRefs ==
    \/ \E value \in ResolvableValues : FromIdAndValue("Post", "7", value)
    \/ ResolveBegin
    \/ \E answer \in Answers : ResolveAnswer(answer)
    \/ \E partial \in BOOLEAN : ResolveReturn(partial)
    \/ ExtractRefs

SpecRefs == Init /\ [][NextRefs]_vars

\* the records a sequence holds
Range(seq) == {seq[n] : n \in DOMAIN seq}

\* the place among the references by id of the reference n
Rank(refs, n) == Cardinality({m \in 1..n : ~refs[m].resolved})

\* C8 as stated: extract_refs right after a successful resolve_refs returns
\* exactly the records resolve_refs loaded and leaves references by id only;
\* extract_refs right after extract_refs returns nothing
ExtractReturnsHydrated ==
    (Len(trace) = 2 /\ trace[2].op = "extract_refs")
        => /\ (trace[1].op = "resolve_refs" /\ trace[1].res.ok)
              => /\ Range(trace[2].res) = Range(trace[1].loaded)
                 /\ \A n \in DOMAIN rec.value.refs : ~rec.value.refs[n].resolved
           /\ trace[1].op = "extract_refs" => trace[2].res = << >>

\* C8 amended: extract_refs right after a successful resolve_refs returns one
\* record for each reference, in their order: the record the payload held
\* for it before resolve_refs, or the record resolve_refs loaded for it; when
\* the payload held none before, these are exactly the loaded records; it
\* leaves references by id only, and extract_refs right after extract_refs
\* returns nothing and leaves the record as it is
ExtractAfterResolve ==
    (Len(trace) = 2 /\ trace[2].op = "extract_refs")
        => /\ (trace[1].op = "resolve_refs" /\ trace[1].res.ok)
              => LET before == trace[1].self.value.refs
                     loaded == trace[1].loaded
                 IN  /\ Len(loaded) = Rank(before, Len(before))
                     /\ trace[2].res =
                            [n \in DOMAIN before |->
                                IF before[n].resolved THEN before[n].record
                                ELSE loaded[Rank(before, n)]]
                     /\ \A n \in DOMAIN before :
                            trace[2].res[n].meta.id = before[n].id
                     /\ (\A n \in DOMAIN before : ~before[n].resolved)
                            => trace[2].res = loaded
                     /\ rec.value.refs = [n \in DOMAIN before |-> Id(before[n].id)]
                     /\ rec.meta = trace[1].self.meta
           /\ trace[1].op = "extract_refs"
              => /\ trace[2].res = << >>
                 /\ rec = trace[2].self

\* a payload holding a record for its first reference had its second
\* reference resolved, and both records were extracted
ExtractAfterResolveReached ==
    /\ Len(trace) = 2
    /\ trace[1].op = "resolve_refs"
    /\ trace[1].res.ok
    /\ trace[1].self.value.refs = <<Resolved(SubRecord("1", 1)), Id("2")>>
    /\ trace[1].loaded = <<SubRecord("2", 2)>>
    /\ trace[2].op = "extract_refs"
    /\ trace[2].res = <<SubRecord("1", 1), SubRecord("2", 2)>>
    /\ rec.value.refs = <<Id("1"), Id("2")>>

====
